---- MODULE Spec2Model ----
(***************************************************************************)
(* Model of packages/editor-ui/src/components/WorkflowActivator.vue: one   *)
(* toggle control (props workflowId / data loading), the shared store it   *)
(* reads and commits to, the REST endpoint updateWorkflow, and the         *)
(* invocations of the async handler activeChanged.  An invocation is       *)
(* suspended at each await of the handler; the code between two awaits is  *)
(* one atomic action (single-threaded event loop).  The handler has no     *)
(* guard on entry, so several invocations may be suspended at once.        *)
(***************************************************************************)
EXTENDS Naturals, Integers, Sequences, FiniteSets, TLC

\* ---------------------------------------------------------------- bounds
MaxInv == 2                       \* invocations of activeChanged per run
MaxTriggers == 2                  \* trigger nodes of the open workflow

Inv == 1..MaxInv

\* ---------------------------------------------------------------- values
Undefined == "undefined"          \* prop workflowId of a never-saved workflow
Empty     == "__EMPTY__"          \* store's id while no saved workflow is open
NewId     == "w3"                 \* id given to a workflow on its first save
WorkflowIds == {"w1", "w2"}       \* workflows that exist at the start
AllIds    == WorkflowIds \cup {NewId}

VARIABLES
  workflowId,        \* props.workflowId
  loading,           \* data().loading
  storeWorkflowId,   \* $store.getters.workflowId / $store.state.workflow.id
  storeActive,       \* $store.state.workflow.active (written by setActive)
  activeWorkflows,   \* $store.getters.getActiveWorkflows
  dirtyState,        \* $store.getters.getStateIsDirty
  nodesIssuesExist,  \* $store.getters.nodesIssuesExist
  activationFlag,    \* window.localStorage LOCAL_STORAGE_ACTIVATION_FLAG set
  serverActive,      \* backend: active flag last applied per workflow id
  pc,                \* per invocation: the await it is suspended at / outcome
  newActiveState,    \* per invocation: the handler's argument
  locals,            \* per invocation: what validation read from the store
  applied,           \* per invocation: its request was applied by the server
  trace,             \* per invocation: its side effects, in program order
  workflowActive,    \* props.workflowActive
  triggerNodes,      \* $store.getters.workflowTriggerNodes
  view,              \* the computed properties the template was rendered with
  errPc,             \* displayActivationError: the await it is suspended at
  errorData,         \* displayActivationError: what getActivationError gave
  shown              \* displayActivationError: the messages it has shown

vars == <<workflowId, loading, storeWorkflowId, storeActive, activeWorkflows,
          dirtyState, nodesIssuesExist, activationFlag, serverActive,
          pc, newActiveState, locals, applied, trace,
          workflowActive, triggerNodes, view, errPc, errorData, shown>>

viewVars == <<workflowActive, triggerNodes, view, errPc, errorData, shown>>

storeVars == <<storeWorkflowId, storeActive, activeWorkflows, dirtyState,
               nodesIssuesExist>>

\* one side effect of an invocation
Ev(e, id, a, n) == [ev |-> e, id |-> id, active |-> a, name |-> n]

NoLocals == [issues |-> FALSE, current |-> FALSE, dirty |-> FALSE]

\* the template not rendered yet
NoView == [rendered |-> FALSE, couldNotBeStarted |-> FALSE,
           disabled |-> FALSE, activeColor |-> "-"]

\* nothing clicked, nothing rendered
ViewIdle ==
  /\ view = NoView
  /\ errPc = "idle"
  /\ errorData = [kind |-> "pending", message |-> ""]
  /\ shown = << >>

Terminal == {"blocked", "declined", "failed", "committed"}

\* ---------------------------------------------------------------- Init
Init ==
  /\ workflowId \in {"w1", Undefined}
  /\ loading = FALSE
  /\ storeWorkflowId \in (IF workflowId = Undefined THEN {Empty}
                          ELSE WorkflowIds)
  /\ storeActive \in (IF storeWorkflowId = Empty THEN {FALSE} ELSE BOOLEAN)
  /\ activeWorkflows \in SUBSET {"w1"}
  /\ dirtyState \in BOOLEAN
  /\ nodesIssuesExist \in BOOLEAN
  /\ activationFlag \in BOOLEAN
  /\ serverActive = [id \in AllIds |-> id \in activeWorkflows]
  /\ pc = [i \in Inv |-> "idle"]
  /\ newActiveState = [i \in Inv |-> FALSE]
  /\ locals = [i \in Inv |-> NoLocals]
  /\ applied = [i \in Inv |-> FALSE]
  /\ trace = [i \in Inv |-> << >>]
  /\ workflowActive = FALSE       \* the props and getters read by the
  /\ triggerNodes = << >>         \* template only; activeChanged reads none
  /\ ViewIdle

\* ------------------------------------------------- pieces of activeChanged
\* variant: the check applied to activations only
NodesIssuesBlock_ActivationOnly(new) == nodesIssuesExist = TRUE /\ new = TRUE

\* line 107: if (this.nodesIssuesExist === true)
NodesIssuesBlock(new) == nodesIssuesExist = TRUE

\* variant: the direction of the toggle not tested
SavesWholeWorkflow_AnyDirection(new, wid, swid) == wid = swid

\* line 120: newActiveState === true && this.workflowId === activeWorkflowId
SavesWholeWorkflow(new, wid, swid) == new = TRUE /\ wid = swid

\* variant: the prompt shown whether or not there are unsaved changes
NeedsConfirm_Always(dirty) == TRUE

\* variant: the dirty flag not consulted
NeedsConfirm_Never(dirty) == FALSE

\* line 125: if (this.dirtyState)
NeedsConfirm(dirty) == dirty = TRUE

\* lines 90-92: computed isCurrentWorkflow
IsCurrentWorkflow(wid, swid) == wid # Undefined /\ swid = wid

\* lines 107-114: the blocking message
BlockedEvents(wid, new) ==
  << Ev("validate", wid, new, "issues"),
     Ev("showMessage", wid, new, "Problem activating workflow") >>

\* variant: the active set committed optimistically, before the request
RequestEvents_Optimistic(wid, new, full) ==
  << Ev(IF new THEN "setWorkflowActive" ELSE "setWorkflowInactive", wid, new, "-"),
     Ev("loadingTrue", wid, new, "-"),
     Ev("updateWorkflow", wid, new, IF full THEN "full" ELSE "activeOnly") >>

\* variant: line 136 left out, a snapshot goes out with its stored flag
RequestEvents_StaleActive(wid, new, full) ==
  << Ev("loadingTrue", wid, new, "-"),
     Ev("updateWorkflow", wid, IF full THEN FALSE ELSE new,
        IF full THEN "full" ELSE "activeOnly") >>

\* lines 136-141: data.active, loading = true, restApi().updateWorkflow
RequestEvents(wid, new, full) ==
  << Ev("loadingTrue", wid, new, "-"),
     Ev("updateWorkflow", wid, new, IF full THEN "full" ELSE "activeOnly") >>

\* variant: the catch block falls through to the component event
RejectedEvents_Emits(wid, new) ==
  << Ev("showError", wid, new,
        IF new THEN "could not be activated" ELSE "could not be deactivated"),
     Ev("emit", wid, new, "workflowActiveChanged"),
     Ev("loadingFalse", wid, new, "-") >>

\* lines 142-147: the catch block
RejectedEvents(wid, new) ==
  << Ev("showError", wid, new,
        IF new THEN "could not be activated" ELSE "could not be deactivated"),
     Ev("loadingFalse", wid, new, "-") >>

\* variant: the hook's name never switched to the current-workflow one
ActivationEventName_Plain(wid, swid) == "workflow.activeChange"

\* lines 149-156: commit of the current workflow's flag and the hook's name
ActivationEventName(wid, swid) ==
  IF swid = wid THEN "workflow.activeChangeCurrent" ELSE "workflow.activeChange"

SetActiveEvents(wid, new, swid) ==
  IF swid = wid THEN << Ev("setActive", wid, new, "-") >> ELSE << >>

\* variant: the persisted flag not consulted
ActiveSetEvents_IgnoresFlag(wid, new, swid, flag) ==
  IF new = TRUE
  THEN << Ev("setWorkflowActive", wid, new, "-") >> \o
       (IF IsCurrentWorkflow(wid, swid)
        THEN << Ev("openModal", wid, new, "workflowActive") >> ELSE << >>)
  ELSE << Ev("setWorkflowInactive", wid, new, "-") >>

\* lines 158-167: commit of the active set and the activation dialog
ActiveSetEvents(wid, new, swid, flag) ==
  IF new = TRUE
  THEN << Ev("setWorkflowActive", wid, new, "-") >> \o
       (IF IsCurrentWorkflow(wid, swid) /\ ~flag
        THEN << Ev("openModal", wid, new, "workflowActive") >> ELSE << >>)
  ELSE << Ev("setWorkflowInactive", wid, new, "-") >>

\* variant: the loading flag reset before the emissions
EmitEvents_ResetFirst(wid, new, swid) ==
  << Ev("loadingFalse", wid, new, "-"),
     Ev("externalHook", wid, new, ActivationEventName(wid, swid)),
     Ev("telemetry", wid, new, "User set workflow active status"),
     Ev("emit", wid, new, "workflowActiveChanged"),
     Ev("fetchPromptsData", wid, new, "-") >>

\* lines 169-174: hook, analytics, component event, reset, prompts
EmitEvents(wid, new, swid) ==
  << Ev("externalHook", wid, new, ActivationEventName(wid, swid)),
     Ev("telemetry", wid, new, "User set workflow active status"),
     Ev("emit", wid, new, "workflowActiveChanged"),
     Ev("loadingFalse", wid, new, "-"),
     Ev("fetchPromptsData", wid, new, "-") >>

\* lines 149-174 in program order
CommitEvents(wid, new, swid, flag) ==
  SetActiveEvents(wid, new, swid) \o ActiveSetEvents(wid, new, swid, flag)
    \o EmitEvents(wid, new, swid)

\* variant: setActive committed whichever workflow is open
StoreActiveAfter_Always(wid, new, swid, sa) == new

\* line 154: $store.commit('setActive', newActiveState)
StoreActiveAfter(wid, new, swid, sa) == IF swid = wid THEN new ELSE sa

\* lines 159, 166: setWorkflowActive / setWorkflowInactive
ActiveWorkflowsAfter(wid, new, aw) ==
  IF new = TRUE THEN aw \cup {wid} ELSE aw \ {wid}

\* the request an invocation has sent (its last updateWorkflow call)
Requests(t) == SelectSeq(t, LAMBDA e : e.ev = "updateWorkflow")
Request(i) == Requests(trace[i])[Len(Requests(trace[i]))]

\* ------------------------------------------------- activeChanged, by await
\* lines 107-141, run with the values the handler reads after the optional
\* save: pre is the trace so far, wid/swid/dirty the prop and store values.
Validate(i, new, pre, wid, swid, dirty) ==
  /\ locals' = [locals EXCEPT ![i] =
        [issues  |-> nodesIssuesExist,
         current |-> (wid = swid),
         dirty   |-> dirty]]
  /\ IF NodesIssuesBlock(new)
     THEN /\ pc' = [pc EXCEPT ![i] = "blocked"]
          /\ trace' = [trace EXCEPT ![i] = pre \o BlockedEvents(wid, new)]
          /\ UNCHANGED loading
     ELSE IF SavesWholeWorkflow(new, wid, swid)
     THEN IF NeedsConfirm(dirty)
          THEN /\ pc' = [pc EXCEPT ![i] = "confirm"]
               /\ trace' = [trace EXCEPT ![i] = pre \o
                     << Ev("validate", wid, new, "ok"),
                        Ev("confirmMessage", wid, new, "Activate and save?") >>]
               /\ UNCHANGED loading
          ELSE /\ pc' = [pc EXCEPT ![i] = "getData"]
               /\ trace' = [trace EXCEPT ![i] = pre \o
                     << Ev("validate", wid, new, "ok"),
                        Ev("getWorkflowDataToSave", wid, new, "-") >>]
               /\ UNCHANGED loading
     ELSE /\ pc' = [pc EXCEPT ![i] = "request"]
          /\ trace' = [trace EXCEPT ![i] = pre \o
                << Ev("validate", wid, new, "ok") >> \o
                RequestEvents(wid, new, FALSE)]
          /\ loading' = TRUE

\* line 102 up to the first await: the user toggles the switch
ActiveChanged(i, new) ==
  /\ pc[i] = "idle"
  /\ \A j \in Inv : j < i => pc[j] # "idle"
  /\ newActiveState' = [newActiveState EXCEPT ![i] = new]
  /\ IF workflowId = Undefined
     THEN /\ pc' = [pc EXCEPT ![i] = "saving"]
          /\ trace' = [trace EXCEPT ![i] =
                << Ev("saveCurrentWorkflow", workflowId, new, "-") >>]
          /\ UNCHANGED <<loading, locals>>
     ELSE Validate(i, new, << >>, workflowId, storeWorkflowId, dirtyState)
  /\ UNCHANGED <<workflowId, storeVars, activationFlag, serverActive, applied>>
  /\ UNCHANGED viewVars

\* line 104 resolves: the workflow got an id (saved) or the save failed
\* (saveCurrentWorkflow reports failure by its result, which is ignored)
SaveCurrentWorkflowDone(i, saved) ==
  /\ pc[i] = "saving"
  /\ workflowId' = IF saved /\ workflowId = Undefined THEN NewId ELSE workflowId
  /\ storeWorkflowId' =
       IF saved /\ storeWorkflowId = Empty THEN NewId ELSE storeWorkflowId
  /\ dirtyState' = IF saved THEN FALSE ELSE dirtyState
  /\ Validate(i, newActiveState[i], trace[i],
              workflowId', storeWorkflowId', dirtyState')
  /\ UNCHANGED <<storeActive, activeWorkflows, nodesIssuesExist,
                 activationFlag, serverActive, newActiveState, applied>>
  /\ UNCHANGED viewVars

\* lines 126-130: the confirmation prompt is answered
ConfirmMessageDone(i, importConfirm) ==
  /\ pc[i] = "confirm"
  /\ IF importConfirm = FALSE
     THEN /\ pc' = [pc EXCEPT ![i] = "declined"]
          /\ UNCHANGED trace
     ELSE /\ pc' = [pc EXCEPT ![i] = "getData"]
          /\ trace' = [trace EXCEPT ![i] = @ \o
                << Ev("getWorkflowDataToSave", workflowId,
                      newActiveState[i], "-") >>]
  /\ UNCHANGED <<workflowId, loading, storeVars, activationFlag, serverActive,
                 newActiveState, locals, applied>>
  /\ UNCHANGED viewVars

\* lines 133-141: the snapshot is there, the request is sent
GetWorkflowDataToSaveDone(i) ==
  /\ pc[i] = "getData"
  /\ pc' = [pc EXCEPT ![i] = "request"]
  /\ trace' = [trace EXCEPT ![i] = @ \o
        RequestEvents(workflowId, newActiveState[i], TRUE)]
  /\ loading' = TRUE
  /\ UNCHANGED <<workflowId, storeVars, activationFlag, serverActive,
                 newActiveState, locals, applied>>
  /\ UNCHANGED viewVars

\* the backend applies the update of a workflow it knows
ServerApply(i) ==
  /\ pc[i] = "request"
  /\ ~applied[i]
  /\ Request(i).id \in AllIds
  /\ serverActive' = [serverActive EXCEPT ![Request(i).id] = Request(i).active]
  /\ applied' = [applied EXCEPT ![i] = TRUE]
  /\ UNCHANGED <<workflowId, loading, storeVars, activationFlag,
                 pc, newActiveState, locals, trace>>
  /\ UNCHANGED viewVars

\* variant: line 145 left out, the flag stays up after a failure
UpdateWorkflowRejected_NoReset(i) ==
  /\ pc[i] = "request"
  /\ ~applied[i]
  /\ pc' = [pc EXCEPT ![i] = "failed"]
  /\ trace' = [trace EXCEPT ![i] = @ \o
        << RejectedEvents(workflowId, newActiveState[i])[1] >>]
  /\ UNCHANGED <<workflowId, loading, storeVars, activationFlag, serverActive,
                 newActiveState, locals, applied>>
  /\ UNCHANGED viewVars

\* lines 142-147: updateWorkflow rejects
UpdateWorkflowRejected(i) ==
  /\ pc[i] = "request"
  /\ ~applied[i]
  /\ pc' = [pc EXCEPT ![i] = "failed"]
  /\ trace' = [trace EXCEPT ![i] = @ \o
        RejectedEvents(workflowId, newActiveState[i])]
  /\ loading' = FALSE
  /\ UNCHANGED <<workflowId, storeVars, activationFlag, serverActive,
                 newActiveState, locals, applied>>
  /\ UNCHANGED viewVars

\* lines 149-174: updateWorkflow resolves
UpdateWorkflowResolved(i) ==
  /\ pc[i] = "request"
  /\ applied[i]
  /\ pc' = [pc EXCEPT ![i] = "committed"]
  /\ storeActive' = StoreActiveAfter(workflowId, newActiveState[i],
                                     storeWorkflowId, storeActive)
  /\ activeWorkflows' = ActiveWorkflowsAfter(workflowId, newActiveState[i],
                                             activeWorkflows)
  /\ trace' = [trace EXCEPT ![i] = @ \o
        CommitEvents(workflowId, newActiveState[i], storeWorkflowId,
                     activationFlag)]
  /\ loading' = FALSE
  /\ UNCHANGED <<workflowId, storeWorkflowId, dirtyState, nodesIssuesExist,
                 activationFlag, serverActive, newActiveState, locals, applied>>
  /\ UNCHANGED viewVars

\* the user opens another of the saved workflows in the editor (store owner)
OpenWorkflow(id) ==
  /\ id # storeWorkflowId
  /\ storeWorkflowId' = id
  /\ storeActive' = serverActive[id]
  /\ dirtyState' = FALSE
  /\ UNCHANGED <<workflowId, loading, activeWorkflows, nodesIssuesExist,
                 activationFlag, serverActive, pc, newActiveState, locals,
                 applied, trace>>
  /\ UNCHANGED viewVars

Next ==
  \/ \E i \in Inv, new \in BOOLEAN : ActiveChanged(i, new)
  \/ \E i \in Inv, saved \in BOOLEAN : SaveCurrentWorkflowDone(i, saved)
  \/ \E i \in Inv, importConfirm \in BOOLEAN : ConfirmMessageDone(i, importConfirm)
  \/ \E i \in Inv : GetWorkflowDataToSaveDone(i)
  \/ \E i \in Inv : ServerApply(i)
  \/ \E i \in Inv : UpdateWorkflowRejected(i)
  \/ \E i \in Inv : UpdateWorkflowResolved(i)
  \/ \E id \in WorkflowIds : OpenWorkflow(id)

Spec == Init /\ [][Next]_vars

\* the awaited step an invocation is suspended at completes: the save, the
\* prompt, the snapshot, the request (applied or rejected) or its response
Completes(i) ==
  \/ \E saved \in BOOLEAN : SaveCurrentWorkflowDone(i, saved)
  \/ \E importConfirm \in BOOLEAN : ConfirmMessageDone(i, importConfirm)
  \/ GetWorkflowDataToSaveDone(i)
  \/ ServerApply(i)
  \/ UpdateWorkflowRejected(i)
  \/ UpdateWorkflowResolved(i)

\* every awaited step that can complete eventually does
Fairness == \A i \in Inv : WF_vars(Completes(i))

\* the starts that differ in what the handler's branches read (workflowId,
\* the open workflow, dirtyState, nodesIssuesExist); the values it only
\* writes or passes on are fixed
FairInit ==
  /\ Init
  /\ activationFlag = TRUE
  /\ storeActive = FALSE
  /\ activeWorkflows = {}

FairSpec == FairInit /\ [][Next]_vars /\ Fairness

\* ------------------------------------------------- computed properties
\* lines 70-73: computed isWorkflowActive
IsWorkflowActive(aw, wid) == wid \in aw

\* variant: the guard on the prop left out
CouldNotBeStarted_AnyMismatch(wa, aw, wid) == IsWorkflowActive(aw, wid) # wa

\* lines 74-76: computed couldNotBeStarted
CouldNotBeStarted(wa, aw, wid) ==
  wa = TRUE /\ IsWorkflowActive(aw, wid) # wa

\* lines 77-82: computed getActiveColor
GetActiveColor(wa, aw, wid) ==
  IF CouldNotBeStarted(wa, aw, wid) = TRUE THEN "#ff4949" ELSE "#13ce66"

\* variant: every trigger node counted, disabled or not
ContainsTrigger_CountsDisabled(nodes) == Len(nodes) > 0

\* lines 93-99: computed containsTrigger
ContainsTrigger(nodes) ==
  Len(SelectSeq(nodes, LAMBDA node : ~node.disabled)) > 0

\* variant: the test for the open workflow left out
Disabled_AnyWorkflow(wa, wid, swid, nodes) == ~wa /\ ~ContainsTrigger(nodes)

\* lines 83-89: computed disabled
Disabled(wa, wid, swid, nodes) ==
  IF IsCurrentWorkflow(wid, swid)
  THEN ~wa /\ ~ContainsTrigger(nodes)
  ELSE FALSE

\* lines 1-24: the template is rendered with the computed properties
Render ==
  /\ view = NoView
  /\ view' = [rendered |-> TRUE,
              couldNotBeStarted |->
                CouldNotBeStarted(workflowActive, activeWorkflows, workflowId),
              disabled |->
                Disabled(workflowActive, workflowId, storeWorkflowId, triggerNodes),
              activeColor |->
                GetActiveColor(workflowActive, activeWorkflows, workflowId)]
  /\ UNCHANGED <<workflowId, loading, storeVars, activationFlag, serverActive,
                 pc, newActiveState, locals, applied, trace,
                 workflowActive, triggerNodes, errPc, errorData, shown>>

\* ------------------------------------------------- displayActivationError
ErrorMessages == {"boom", ""}              \* errorData.error.message
LookupResults ==
  {[kind |-> "throws", message |-> ""], [kind |-> Undefined, message |-> ""]}
    \cup {[kind |-> "error", message |-> m] : m \in ErrorMessages}

\* variant: a failed lookup reported like a lookup that found nothing
ErrorMessage_FailureAsNotFound(data) ==
  IF data.kind = "throws" \/ data.kind = Undefined
  THEN "Sorry there was a problem. No error got found to display."
  ELSE "The following error occurred on workflow activation:<br /><i>"
         \o data.message \o "</i>"

\* lines 177-188: the text for what getActivationError gave
ErrorMessage(data) ==
  IF data.kind = "throws"
  THEN "Sorry there was a problem requesting the error"
  ELSE IF data.kind = Undefined
  THEN "Sorry there was a problem. No error got found to display."
  ELSE "The following error occurred on workflow activation:<br /><i>"
         \o data.message \o "</i>"

\* line 176-179: the warning sign is clicked, the lookup is sent
DisplayActivationError ==
  /\ errPc = "idle"
  /\ errPc' = "lookup"
  /\ UNCHANGED <<workflowId, loading, storeVars, activationFlag, serverActive,
                 pc, newActiveState, locals, applied, trace,
                 workflowActive, triggerNodes, view, errorData, shown>>

\* lines 179-196: getActivationError resolves or rejects, the message is shown
GetActivationErrorDone(data) ==
  /\ errPc = "lookup"
  /\ errPc' = "done"
  /\ errorData' = data
  /\ shown' = Append(shown,
        [title |-> "Problem activating workflow",
         message |-> ErrorMessage(data),
         type |-> "warning", duration |-> 0])
  /\ UNCHANGED <<workflowId, loading, storeVars, activationFlag, serverActive,
                 pc, newActiveState, locals, applied, trace,
                 workflowActive, triggerNodes, view>>

\* the sequences of at most n trigger nodes, each disabled or not
TriggerLists(n) ==
  UNION {[1..k -> [disabled : BOOLEAN]] : k \in 0..n}

\* any props and any store the template may be rendered with
ViewInit ==
  /\ workflowId \in WorkflowIds \cup {Undefined}
  /\ workflowActive \in BOOLEAN
  /\ loading \in BOOLEAN
  /\ storeWorkflowId \in WorkflowIds \cup {Empty}
  /\ storeActive \in BOOLEAN
  /\ activeWorkflows \in SUBSET WorkflowIds
  /\ dirtyState \in BOOLEAN
  /\ nodesIssuesExist \in BOOLEAN
  /\ triggerNodes \in TriggerLists(MaxTriggers)
  /\ activationFlag = FALSE
  /\ serverActive = [id \in AllIds |-> id \in activeWorkflows]
  /\ pc = [i \in Inv |-> "idle"]
  /\ newActiveState = [i \in Inv |-> FALSE]
  /\ locals = [i \in Inv |-> NoLocals]
  /\ applied = [i \in Inv |-> FALSE]
  /\ trace = [i \in Inv |-> << >>]
  /\ ViewIdle

ViewNext ==
  \/ Render
  \/ DisplayActivationError
  \/ \E data \in LookupResults : GetActivationErrorDone(data)

ViewSpec == ViewInit /\ [][ViewNext]_vars

TypeOK ==
  /\ workflowId \in AllIds \cup {Undefined}
  /\ loading \in BOOLEAN
  /\ storeWorkflowId \in AllIds \cup {Empty}
  /\ storeActive \in BOOLEAN
  /\ activeWorkflows \subseteq AllIds \cup {Undefined}
  /\ pc \in [Inv -> {"idle", "saving", "confirm", "getData", "request"}
                      \cup Terminal]

\* ---------------------------------------------------------------- helpers
Has(t, e) == \E k \in DOMAIN t : t[k].ev = e
HasAny(t, es) == \E k \in DOMAIN t : t[k].ev \in es
Count(t, e) == Cardinality({k \in DOMAIN t : t[k].ev = e})
\* every event of bs in t has an event a somewhere before it
Before(t, a, bs) ==
  \A k \in DOMAIN t : t[k].ev \in bs => \E j \in 1..(k-1) : t[j].ev = a

StoreCommits == {"setActive", "setWorkflowActive", "setWorkflowInactive"}
Emissions    == {"externalHook", "telemetry", "emit"}
LoadingEvs   == {"loadingTrue", "loadingFalse"}
ActiveStore  == <<storeActive, activeWorkflows>>

\* ================================================================ C1
C1Body(calls) ==
  \A i \in Inv :
    (nodesIssuesExist' /\ pc'[i] # "idle") =>
      /\ ~HasAny(trace'[i], calls \cup StoreCommits \cup LoadingEvs)
      /\ pc'[i] \in {"saving", "blocked"}
      /\ pc'[i] = "blocked" =>
           /\ Count(trace'[i], "showMessage") = 1
           /\ trace'[i][Len(trace'[i])].ev = "showMessage"
           /\ trace'[i][Len(trace'[i])].name = "Problem activating workflow"
      /\ pc'[i] # pc[i] => UNCHANGED <<loading, ActiveStore>>

\* C1 as stated: with unresolved node issues a toggle (either direction)
\* issues no network call at all -- neither the save of line 104 nor
\* updateWorkflow --, shows 'Problem activating workflow' and leaves the
\* loading flag and the store's activation state unchanged.
C1_NoNetworkCallAtAll ==
  [][C1Body({"saveCurrentWorkflow", "updateWorkflow"})]_vars

\* C1 (amended): with unresolved node issues a toggle (either direction)
\* sends no updateWorkflow request, ends by showing exactly one
\* 'Problem activating workflow' message, and never touches the loading flag,
\* the current workflow's active flag or the active-workflow set; only a
\* control without a workflow id has called saveCurrentWorkflow before.
C1_BlockedByNodeIssues ==
  [][ /\ C1Body({"updateWorkflow"})
      /\ \A i \in Inv : Has(trace'[i], "saveCurrentWorkflow") =>
            trace'[i][1].id = Undefined ]_vars

C1_Witness ==
  \E i \in Inv : pc[i] = "blocked" /\ newActiveState[i] = FALSE
                 /\ Len(trace[i]) = 2

C3_FailureLeavesStore ==
  [][ \A i \in Inv :
        pc'[i] = "failed" =>
          /\ ~HasAny(trace'[i], StoreCommits \cup Emissions \cup {"openModal"})
          /\ Count(trace'[i], "showError") = 1
          /\ trace'[i][Len(trace'[i])].ev = "loadingFalse"
          /\ pc[i] = "request" =>
               /\ UNCHANGED <<storeVars>>
               /\ loading' = FALSE
    ]_vars

C3_Witness == \E i \in Inv : pc[i] = "failed" /\ Has(trace[i], "showError")

\* ================================================================ C4
\* C4: a step changes the active-workflow set, or the active flag of the
\* workflow that stays open, only as the continuation of an updateWorkflow
\* request the server has applied and acknowledged; and in every
\* interaction each store commit comes after its updateWorkflow call.
C4_CommitAfterAck ==
  [][ /\ ( \/ activeWorkflows' # activeWorkflows
           \/ (storeActive' # storeActive /\ storeWorkflowId' = storeWorkflowId) )
         => \E i \in Inv : pc[i] = "request" /\ applied[i]
                           /\ pc'[i] = "committed"
      /\ \A i \in Inv :
           /\ Before(trace'[i], "updateWorkflow", StoreCommits)
           /\ HasAny(trace'[i], StoreCommits) =>
                (applied'[i] /\ pc'[i] = "committed")
    ]_vars

C4_Witness ==
  \E i \in Inv : pc[i] = "committed" /\ HasAny(trace[i], StoreCommits)

\* ================================================================ C5
InFlight == {i \in Inv : pc[i] = "request"}

\* C5: at any time at most one updateWorkflow request of the control is
\* unanswered (a second invocation is not admitted while one is in flight).
C5_AtMostOneInFlight == Cardinality(InFlight) <= 1

\* ================================================================ C6
Quiescent == \A i \in Inv : pc[i] \in {"idle", "blocked", "declined", "committed"}

\* C6: once every started interaction has ended without a failed request
\* and none is in flight, a workflow id is in the store's active-workflow set
\* exactly when the active flag the server applied last for it is true.
C6_StoreEqualsServer ==
  Quiescent => \A id \in AllIds : (id \in activeWorkflows) <=> serverActive[id]

\* ================================================================ C7
Sent(i) == pc[i] \in {"request", "failed", "committed"}

\* C7: an interaction sends at most one updateWorkflow request, none while
\* it is blocked, declined or still waiting for the save, the prompt or the
\* snapshot, and exactly one once it is past them; the request is sent for
\* the control's workflow id and its active field is the handler's argument.
C7_ExactlyOneRequest ==
  [][ \A i \in Inv :
        /\ Count(trace'[i], "updateWorkflow") = (IF Sent(i)' THEN 1 ELSE 0)
        /\ (Sent(i)' /\ ~Sent(i)) =>
             /\ Request(i)'.id = workflowId'
             /\ Request(i)'.active = newActiveState'[i]
             /\ ~locals'[i].issues
        /\ Sent(i)' => Request(i)'.active = newActiveState'[i]
    ]_vars

C7_Witness ==
  \E i \in Inv : /\ pc[i] = "committed" /\ newActiveState[i] = TRUE
                 /\ Request(i) = Ev("updateWorkflow", "w1", TRUE, "full")

\* ================================================================ C8
Ordered(rank(_), t) ==
  \A j, k \in DOMAIN t : j < k => rank(t[j].ev) <= rank(t[k].ev)

\* the order the claim lists, "the optional save" being any save step
ClaimedRank(e) ==
  CASE e = "validate" -> 1
    [] e = "confirmMessage" -> 2
    [] e \in {"saveCurrentWorkflow", "getWorkflowDataToSave"} -> 3
    [] e = "updateWorkflow" -> 4
    [] e \in StoreCommits -> 5
    [] e \in Emissions -> 6
    [] e = "loadingFalse" -> 7
    [] OTHER -> 0

\* the order of the code: saveCurrentWorkflow comes before validation
CodeRank(e) ==
  CASE e = "saveCurrentWorkflow" -> 0
    [] e = "validate" -> 1
    [] e = "confirmMessage" -> 2
    [] e = "getWorkflowDataToSave" -> 3
    [] e = "updateWorkflow" -> 4
    [] e \in StoreCommits -> 5
    [] e \in Emissions -> 6
    [] e = "loadingFalse" -> 7
    [] OTHER -> 0

Ranked(t) == SelectSeq(t, LAMBDA e : ClaimedRank(e.ev) > 0)

\* C8 as stated: in every interaction the side effects occur in the order
\* validation, confirmation prompt, save, updateWorkflow, store commits,
\* emissions, reset of loading.
C8_ClaimedOrder == \A i \in Inv : Ordered(ClaimedRank, Ranked(trace[i]))

\* C8 (amended): in every interaction the side effects occur in the order
\* save of a never-saved workflow (saveCurrentWorkflow), validation,
\* confirmation prompt, collection of the snapshot (getWorkflowDataToSave),
\* updateWorkflow, store commits, emissions (hook, analytics,
\* workflowActiveChanged in that order), reset of loading.
C8_CodeOrder ==
  \A i \in Inv :
    /\ Ordered(CodeRank, Ranked(trace[i]))
    /\ Before(trace[i], "externalHook", {"telemetry"})
    /\ Before(trace[i], "telemetry", {"emit"})

C8_Witness ==
  \E i \in Inv : /\ pc[i] = "committed"
                 /\ Has(trace[i], "saveCurrentWorkflow")
                 /\ Has(trace[i], "getWorkflowDataToSave")
                 /\ Has(trace[i], "setActive")

\* ================================================================ C9
\* C9: the step that commits a successful toggle to state s leaves the
\* control's workflow id in the active-workflow set iff s; if that workflow
\* is the open one the current workflow's active flag becomes s, otherwise
\* the flag is left as it was.
C9_StoreHoldsNewState ==
  [][ \A i \in Inv :
        (pc[i] = "request" /\ pc'[i] = "committed") =>
          /\ (workflowId' \in activeWorkflows') <=> newActiveState[i]
          /\ storeWorkflowId' = workflowId' =>
               /\ storeActive' = newActiveState[i]
               /\ storeActive' = (workflowId' \in activeWorkflows')
          /\ storeWorkflowId' # workflowId' => storeActive' = storeActive
          /\ activeWorkflows' \ {workflowId'} = activeWorkflows \ {workflowId'}
    ]_vars

C9_Witness ==
  \E i \in Inv : /\ pc[i] = "committed" /\ newActiveState[i] = TRUE
                 /\ storeWorkflowId # workflowId /\ storeActive = FALSE
                 /\ workflowId \in activeWorkflows

\* ================================================================ C10
EvAt(t, e) == t[CHOOSE k \in DOMAIN t : t[k].ev = e]

\* C10: an interaction that has not committed has emitted no hook, analytics
\* record or workflowActiveChanged event; a committed one has emitted exactly
\* one of each, carrying the control's workflow id and the new active state,
\* and the hook is workflow.activeChangeCurrent iff the control's workflow is
\* the open one at the commit, workflow.activeChange otherwise.
C10_EmitsOnceEach ==
  [][ \A i \in Inv :
        /\ pc'[i] # "committed" => ~HasAny(trace'[i], Emissions)
        /\ pc'[i] = "committed" =>
             \A e \in Emissions :
               /\ Count(trace'[i], e) = 1
               /\ EvAt(trace'[i], e).active = newActiveState'[i]
        /\ (pc[i] = "request" /\ pc'[i] = "committed") =>
             /\ \A e \in Emissions : EvAt(trace'[i], e).id = workflowId'
             /\ EvAt(trace'[i], "externalHook").name =
                  (IF storeWorkflowId' = workflowId'
                   THEN "workflow.activeChangeCurrent"
                   ELSE "workflow.activeChange")
             /\ EvAt(trace'[i], "emit").name = "workflowActiveChanged"
    ]_vars

C10_Witness ==
  \E i \in Inv : /\ pc[i] = "committed"
                 /\ EvAt(trace[i], "externalHook").name = "workflow.activeChangeCurrent"
                 /\ \E j \in Inv : j # i /\ pc[j] = "committed"
                      /\ EvAt(trace[j], "externalHook").name = "workflow.activeChange"

\* ================================================================ C11
Modals(i) == Count(trace[i], "openModal")
RECURSIVE SumModals(_)
SumModals(n) == IF n = 0 THEN 0 ELSE Modals(n) + SumModals(n - 1)
TotalModals == SumModals(MaxInv)

\* the dialog is opened only by a committed activation with the flag unset
C11Never ==
  \A i \in Inv :
    Has(trace[i], "openModal") =>
      pc[i] = "committed" /\ newActiveState[i] = TRUE /\ ~activationFlag

\* C11 as stated: the dialog is a one-time dialog -- over all toggles it is
\* opened by the first successful activation and at most once in total, never
\* by a deactivation, a failed, blocked or declined toggle, or with the
\* persisted flag set.
C11_OneTimeDialog ==
  /\ C11Never
  /\ TotalModals <= 1
  /\ (\E i \in Inv : pc[i] = "committed" /\ newActiveState[i] /\ ~activationFlag)
       => TotalModals = 1

\* C11 (amended): a toggle opens the dialog exactly when it is a successful
\* activation, the control's workflow is the open one at the commit and the
\* persisted flag is not set; at most once per interaction, never by a
\* deactivation, a failed, blocked or declined toggle or with the flag set;
\* the component never writes the flag, so later activations open it again.
C11_DialogPerActivation ==
  [][ /\ C11Never'
      /\ UNCHANGED activationFlag
      /\ \A i \in Inv :
           /\ Modals(i)' <= 1
           /\ (pc[i] = "request" /\ pc'[i] = "committed") =>
                ( Has(trace'[i], "openModal") <=>
                    ( /\ newActiveState[i] = TRUE
                      /\ workflowId' # Undefined
                      /\ storeWorkflowId' = workflowId'
                      /\ ~activationFlag' ) )
    ]_vars

C11_Witness ==
  \E i, j \in Inv : i # j /\ Modals(i) = 1 /\ Modals(j) = 1

\* ================================================================ C12
Ended == \A i \in Inv : pc[i] \in Terminal \cup {"idle"}

\* C12: when every awaited step eventually completes, the control is
\* again and again in a state where every started interaction has ended
\* (blocked, declined, failed or committed; an ended interaction stays
\* ended), and in every such state the loading flag is false.
C12_EndsIdle ==
  /\ []<>Ended
  /\ [](Ended => loading = FALSE)
  /\ [][\A i \in Inv : pc[i] \in Terminal => pc'[i] = pc[i]]_vars

C12_Witness ==
  /\ \A i \in Inv : pc[i] \in Terminal
  /\ \E i \in Inv : pc[i] = "failed"
  /\ \E i \in Inv : pc[i] = "declined"
  /\ loading = FALSE

\* ================================================================ C17
Validated(i) == pc[i] \notin {"idle", "saving"}

\* C17 as stated: the prompt is shown iff the toggle is an activation, the
\* control's workflow is the open one and the dirty flag is set.
C17_PromptIffDirtyActivation ==
  \A i \in Inv :
    Validated(i) =>
      ( Has(trace[i], "confirmMessage") <=>
          (newActiveState[i] /\ locals[i].current /\ locals[i].dirty) )

\* C17 (amended): the prompt is shown iff the toggle passes validation (no
\* node issues), is an activation, the control's workflow is the open one
\* and the dirty flag is set; it is shown at most once, and a deactivation or
\* a toggle of a workflow that is not open never waits for confirmation.
C17_PromptIffValidDirtyActivation ==
  \A i \in Inv :
    /\ Count(trace[i], "confirmMessage") <= 1
    /\ Validated(i) =>
         ( Has(trace[i], "confirmMessage") <=>
             ( /\ ~locals[i].issues /\ newActiveState[i]
               /\ locals[i].current /\ locals[i].dirty ) )
    /\ pc[i] = "confirm" =>
         (newActiveState[i] /\ locals[i].current /\ Has(trace[i], "confirmMessage"))
    /\ pc[i] = "declined" => Has(trace[i], "confirmMessage")

C17_Witness ==
  \E i \in Inv : /\ pc[i] = "committed" /\ Has(trace[i], "confirmMessage")
                 /\ \E j \in Inv : /\ pc[j] = "committed"
                                   /\ ~Has(trace[j], "confirmMessage")
                                   /\ newActiveState[j] /\ locals[j].current

\* ================================================================ C18
\* C18: in every reachable state loading is true exactly when an
\* updateWorkflow request of the control is unanswered.
C18_LoadingTracksRequest == loading <=> (InFlight # {})

\* ================================================================ C19
\* C19: a request carries the workflow snapshot exactly when the toggle is
\* an activation of the workflow that is open, dirty or not; every
\* deactivation and every request for a workflow that is not open carries
\* the active flag only.
C19_SnapshotIffCurrentActivation ==
  \A i \in Inv :
    /\ Has(trace[i], "getWorkflowDataToSave") <=>
         ( /\ pc[i] \in {"getData", "request", "failed", "committed"}
           /\ newActiveState[i] /\ locals[i].current )
    /\ Sent(i) =>
         /\ Request(i).name \in {"full", "activeOnly"}
         /\ Request(i).name = "full" <=>
              (newActiveState[i] /\ locals[i].current)

C19_Witness ==
  \E i, j \in Inv :
    /\ Sent(i) /\ Request(i).name = "full" /\ ~locals[i].dirty
    /\ Sent(j) /\ Request(j).name = "full" /\ locals[j].dirty

\* ================================================================ C13
\* C13: for all four combinations of the prop workflowActive and of the
\* membership of workflowId in the active-workflow set, couldNotBeStarted is
\* true exactly when workflowActive is true and the set lacks the id.
C13_CouldNotBeStarted ==
  view.rendered =>
    ( view.couldNotBeStarted <=>
        (workflowActive = TRUE /\ workflowId \notin activeWorkflows) )

C13_Witness ==
  /\ view.rendered /\ view.couldNotBeStarted
  /\ workflowActive /\ workflowId \notin activeWorkflows

\* ================================================================ C14
NoEnabledTrigger == \A k \in DOMAIN triggerNodes : triggerNodes[k].disabled
IsOpen == workflowId # Undefined /\ storeWorkflowId = workflowId

\* C14 as stated: with no enabled trigger node and the control's workflow
\* not the open one, the switch is disabled whatever the rest of the state.
C14_DisabledWhenNotOpen ==
  (view.rendered /\ NoEnabledTrigger /\ ~IsOpen) => view.disabled

\* C14 (amended): when the control's workflow is not the open one the
\* switch is never disabled, whatever the trigger nodes, the active flag,
\* the dirty flag, the node issues and loading are; with no enabled trigger
\* node it is disabled only for the open workflow, when that is not active.
C14_EnabledWhenNotOpen ==
  /\ (view.rendered /\ ~IsOpen) => ~view.disabled
  /\ (view.rendered /\ NoEnabledTrigger) =>
       (view.disabled <=> (IsOpen /\ ~workflowActive))

C14_Witness ==
  /\ view.rendered /\ NoEnabledTrigger /\ ~IsOpen /\ ~view.disabled
  /\ ~workflowActive /\ workflowId # Undefined
  /\ dirtyState /\ nodesIssuesExist /\ loading

\* ================================================================ C15
\* C15: displayActivationError ends having shown exactly one warning dialog
\* and in no other way: the generic 'problem requesting the error' text when
\* the lookup failed, the different 'no error got found' text when the
\* lookup gave undefined, the error's own message otherwise; none of its
\* steps changes the store, the props or the loading flag.
C15_OneWarningDialog ==
  [][ /\ errPc' \in {"idle", "lookup", "done"}
      /\ errPc' # errPc =>
           UNCHANGED <<workflowId, workflowActive, loading, storeVars>>
      /\ errPc' # "done" => shown' = << >>
      /\ errPc' = "done" =>
           /\ Len(shown') = 1
           /\ shown'[1].type = "warning"
           /\ shown'[1].title = "Problem activating workflow"
           /\ errorData'.kind = "throws" =>
                shown'[1].message = "Sorry there was a problem requesting the error"
           /\ errorData'.kind = Undefined =>
                shown'[1].message =
                  "Sorry there was a problem. No error got found to display."
           /\ errorData'.kind = "error" =>
                shown'[1].message =
                  "The following error occurred on workflow activation:<br /><i>"
                    \o errorData'.message \o "</i>"
    ]_vars

C15_Witness ==
  /\ errPc = "done" /\ errorData.kind = "throws" /\ Len(shown) = 1
  /\ shown[1].message # "Sorry there was a problem. No error got found to display."

\* ================================================================ C16
\* C16 as stated: the switch is disabled exactly when the workflow is not
\* active and has no enabled trigger node; an active workflow's switch is
\* never disabled.
C16_DisabledIffInactiveNoTrigger ==
  view.rendered =>
    /\ view.disabled <=> (~workflowActive /\ NoEnabledTrigger)
    /\ workflowActive => ~view.disabled

\* C16 (amended): the switch is disabled exactly when the control's workflow
\* is the open one, is not active and has no enabled trigger node; an active
\* workflow's switch is never disabled.
C16_DisabledIffOpenInactiveNoTrigger ==
  view.rendered =>
    /\ view.disabled <=> (IsOpen /\ ~workflowActive /\ NoEnabledTrigger)
    /\ workflowActive => ~view.disabled

C16_Witness ==
  /\ view.rendered /\ view.disabled
  /\ Len(triggerNodes) = MaxTriggers

====
